---- MODULE Spec2Model ----
(***************************************************************************)
(* tempo-craft: the BPM / genre enrichment pipeline of MusicAnalyzer       *)
(* (src/src/analyzer/music_analyzer.py) over its two fallback providers,   *)
(* AcousticBrainzAnalyzer and GetSongBPMAnalyzer.                          *)
(*                                                                         *)
(* One behaviour is one call of MusicAnalyzer.analyze_tracks.  Every       *)
(* external request (MusicBrainz search, AcousticBrainz high-level and     *)
(* low-level fetch, GetSongBPM search, Spotify artist search) is one step; *)
(* the answer of the remote service is the step's input.  That is Spec.    *)
(*                                                                         *)
(* The functions that only compute from their arguments are taken on their *)
(* own, one call per behaviour: GsSpec, TrackSpec, FilterSpec,             *)
(* SimilaritySpec, CleanSpec and LowLevelSpec; StatusSpec is one call of   *)
(* MusicAnalyzer.get_fallback_status.                                      *)
(***************************************************************************)
EXTENDS Integers, Sequences, FiniteSets, TLC

VARIABLES
    acousticbrainz,     \* MusicAnalyzer.acousticbrainz is not None
    getsongbpm,         \* MusicAnalyzer.getsongbpm is not None
    tracks,             \* the input list: tracks[k] is the k-th Track object
    idx,                \* analyze_tracks: position of the loop (enumerate, 1-based)
    pc,                 \* which request the current track waits for
    mbid,               \* get_track_bpm: the local mbid (0: None or empty)
    successful_tracks,  \* analyze_tracks: positions appended so far
    failed_tracks,      \* analyze_tracks: (position, str(e)) pairs appended so far
    calls,              \* the requests issued for the current track, with their answers
    abResult,           \* what acousticbrainz.get_track_bpm gave for the current track
    gsResult,           \* what getsongbpm.get_track_bpm gave for the current track
    bpmStep,            \* what get_bpm_with_fallback gave analyze_track
    genreStep,          \* per position: "ok", or the exception analyze_track raised
    escaped,            \* the exception that left analyze_tracks ("none": none)
    input,              \* the tracks as they were when analyze_tracks was called
    recordings,         \* search_mbid_by_track: data['recordings'] of the answer
                        \* just received (<<>> after any other request)
    op,                 \* a single call of a function on its own: name and arguments
    ret,                \* what that call returned or raised (Pending before it)
    heap                \* the list and Track objects that call works on

\* The state of one analyze_tracks call, and of one single call.
unitVars == <<op, ret, heap>>
vars == <<acousticbrainz, getsongbpm, tracks, idx, pc, mbid, successful_tracks,
          failed_tracks, calls, abResult, gsResult, bpmStep, genreStep, escaped,
          input, recordings, unitVars>>

(***************************************************************************)
(* Bounds of the model.                                                    *)
(***************************************************************************)
MaxTracks == 2          \* longest input list of analyze_tracks
MaxRecordings == 2      \* most recordings in a MusicBrainz answer
MaxEstimates == 2       \* most entries of a low-level rhythm.tempo mapping
MaxListed == 2          \* longest track list handed to a filter
MaxSuffixes == 2        \* most suffixes at the end of a search term
MaxIdLen == 2           \* longest id, name, artist or uri of a constructed Track
MaxResults == 2         \* most entries of a GetSongBPM "search" list

(***************************************************************************)
(* Program constants.                                                      *)
(***************************************************************************)
MinBpm == 60
MaxBpm == 200

(***************************************************************************)
(* Python values.                                                          *)
(***************************************************************************)
\* Optional[float]: None, or a number.
None == [some |-> FALSE, v |-> 0]
Some(x) == [some |-> TRUE, v |-> x]

\* bool(x) of an Optional[float]: None and 0.0 are falsy.
Truthy(o) == o.some /\ o.v # 0

\* A JSON value found under a key: a number, something that is no number
\* (a string, null, a list), or no such key.
JNum(x) == [t |-> "num", v |-> x]
JOther == [t |-> "other", v |-> 0]
JAbsent == [t |-> "absent", v |-> 0]

\* The numbers a tempo field is drawn from: both ends of the accepted range
\* and their outer neighbours.
TempoNumbers == {MinBpm - 1, MinBpm, MaxBpm, MaxBpm + 1}
JValues == {JNum(x) : x \in TempoNumbers} \cup {JOther}
JFields == JValues \cup {JAbsent}

\* All sequences over S of length at most k.
SeqsUpTo(S, k) == UNION {[1..m -> S] : m \in 0..k}

(***************************************************************************)
(* Exception classes and isinstance.                                       *)
(***************************************************************************)
\* The base class of a class ("object" above Exception).  TempoCraftError is
\* imported from the exceptions package and taken to derive from Exception.
Parent(c) ==
    CASE c = "BPMAnalysisError" -> "AnalysisError"
      [] c = "GenreAnalysisError" -> "AnalysisError"
      [] c = "ExternalAPIError" -> "AnalysisError"
      [] c = "DataNotFoundError" -> "AnalysisError"
      [] c = "AnalysisError" -> "TempoCraftError"
      [] c = "SpotifyQuotaExceededError" -> "SpotifyError"
      [] c = "SpotifyError" -> "TempoCraftError"
      [] c = "TempoCraftError" -> "Exception"
      [] c = "Timeout" -> "RequestException"
      [] c = "JSONDecodeError" -> "RequestException"
      [] c = "RequestException" -> "Exception"
      [] c = "SpotifyException" -> "Exception"
      [] c = "ValueError" -> "Exception"
      [] c = "KeyError" -> "Exception"
      [] c = "AttributeError" -> "Exception"
      [] c = "TypeError" -> "Exception"
      [] OTHER -> "object"

RECURSIVE IsInstance(_, _)
IsInstance(c, cls) ==
    IF c = cls THEN TRUE
    ELSE IF c = "object" THEN FALSE
    ELSE IsInstance(Parent(c), cls)

\* The outcome of a call: a returned value, or a raised exception.
Returned(o) == [kind |-> "return", val |-> o, exc |-> "none"]
Raised(c) == [kind |-> "raise", val |-> None, exc |-> c]
Pending == [kind |-> "pending", val |-> None, exc |-> "none"]
NotCalled == [kind |-> "notcalled", val |-> None, exc |-> "none"]

(***************************************************************************)
(* AcousticBrainzAnalyzer: the validator and the two extraction functions. *)
(***************************************************************************)
\* Mutant: the validator without its upper end.
IsValidBpm_NoUpperEnd(val) == val.t = "num" /\ MinBpm <= val.v

\* isinstance(value, (int, float)) and 60 <= value <= 200
IsValidBpm(val) == val.t = "num" /\ MinBpm <= val.v /\ val.v <= MaxBpm

\* The first accepted value of a sequence of JSON values, or None.
RECURSIVE FirstValid(_)
FirstValid(s) ==
    IF s = <<>> THEN None
    ELSE IF IsValidBpm(Head(s)) THEN Some(Head(s).v)
    ELSE FirstValid(Tail(s))

\* A high-level document: data is a dict or not; data['rhythm'] is a dict,
\* something else, or missing; rhythm's bpm and tempo fields.
HighLevelDocs ==
    {[shape |-> "dict", rhythm |-> "dict", bpm |-> b, tempo |-> t] :
        b \in JFields, t \in JFields}
    \cup {[shape |-> "dict", rhythm |-> r, bpm |-> JAbsent, tempo |-> JAbsent] :
        r \in {"absent", "other"}}
    \cup {[shape |-> "other", rhythm |-> "absent", bpm |-> JAbsent, tempo |-> JAbsent]}

\* bpm_fields = ['bpm', 'tempo', 'rhythm.bpm'], first hit wins; an
\* AttributeError of .get on a non-dict is caught and gives None.
_extract_bpm_from_highlevel(data) ==
    IF data.shape # "dict" \/ data.rhythm = "other" THEN None
    ELSE FirstValid(<<data.bpm, data.tempo, data.bpm>>)

\* A low-level rhythm.tempo: a number, a mapping of estimates, something
\* else, or missing.
LowLevelTempos ==
    {[t |-> f.t, v |-> f.v, items |-> <<>>] : f \in JFields}
    \cup {[t |-> "dict", v |-> 0, items |-> s] : s \in SeqsUpTo(JValues, MaxEstimates)}

LowLevelDocs ==
    {[shape |-> "dict", rhythm |-> "dict", bpm |-> b, tempo |-> t] :
        b \in JFields, t \in LowLevelTempos}
    \cup {[shape |-> "dict", rhythm |-> r, bpm |-> JAbsent,
           tempo |-> [t |-> "absent", v |-> 0, items |-> <<>>]] :
        r \in {"absent", "other"}}
    \cup {[shape |-> "other", rhythm |-> "absent", bpm |-> JAbsent,
           tempo |-> [t |-> "absent", v |-> 0, items |-> <<>>]]}

\* bpm_candidates: the accepted values of rhythm.tempo (every value of a
\* mapping, in its order, or the single number), then the accepted rhythm.bpm.
LowLevelCandidates(data) ==
    (IF data.tempo.t = "dict"
        THEN SelectSeq(data.tempo.items, IsValidBpm)
        ELSE IF IsValidBpm([t |-> data.tempo.t, v |-> data.tempo.v])
            THEN <<JNum(data.tempo.v)>>
            ELSE <<>>)
    \o (IF IsValidBpm(data.bpm) THEN <<data.bpm>> ELSE <<>>)

\* Mutant: the last candidate is returned.
_extract_bpm_from_lowlevel_Last(data) ==
    IF data.shape # "dict" \/ data.rhythm = "other" THEN None
    ELSE IF LowLevelCandidates(data) # <<>>
        THEN Some(LowLevelCandidates(data)[Len(LowLevelCandidates(data))].v)
        ELSE None

_extract_bpm_from_lowlevel(data) ==
    IF data.shape # "dict" \/ data.rhythm = "other" THEN None
    ELSE IF LowLevelCandidates(data) # <<>>
        THEN Some(LowLevelCandidates(data)[1].v)
        ELSE None

(***************************************************************************)
(* What a remote service can answer.  status 0 stands for no answer at    *)
(* all: session.get raised err.  body tells whether response.json() gives  *)
(* a document ("json"), raises err ("garbage"), or is never read ("none"). *)
(***************************************************************************)
\* response.json() on a body that is no JSON raises requests' JSONDecodeError
\* (a RequestException) or, with an older requests, a plain ValueError.
JsonErrors == {"JSONDecodeError", "ValueError"}
NetworkErrors == {"Timeout", "RequestException"}

NoAnswer == {[status |-> 0, body |-> "none", err |-> e] : e \in NetworkErrors}
Garbage == {[status |-> 200, body |-> "garbage", err |-> e] : e \in JsonErrors}
Status(s) == [status |-> s, body |-> "none", err |-> "none"]
Json == [status |-> 200, body |-> "json", err |-> "none"]

(***************************************************************************)
(* AcousticBrainzAnalyzer.search_mbid_by_track                             *)
(***************************************************************************)
\* recording.get('id') of each recording: 0 for a missing or empty id.
RecordingLists == SeqsUpTo({0, 1, 2}, MaxRecordings)

\* for recording in recordings: mbid = recording.get('id'); if mbid: return mbid
RECURSIVE FirstMbid(_)
FirstMbid(found) ==
    IF found = <<>> THEN 0
    ELSE IF Head(found) # 0 THEN Head(found)
    ELSE FirstMbid(Tail(found))

\* Every answer of the MusicBrainz search, with data['recordings'] when the
\* body is a document.
SearchAnswers ==
    {[ans |-> Json, recordings |-> r] : r \in RecordingLists}
    \cup {[ans |-> a, recordings |-> <<>>] :
            a \in NoAnswer \cup Garbage \cup {Status(404), Status(503)}}

\* Mutant: the search lets the exceptions of session.get and response.json()
\* through.
SearchCatches_Nothing(exc) == FALSE

\* Line 119: except Exception.
SearchCatches(exc) == IsInstance(exc, "Exception")

\* Lines 97-117, the try block: the mbid returned (0: None), or the
\* exception raised in it.
SearchBody(a) ==
    IF a.ans.status = 0 THEN [mbid |-> 0, exc |-> a.ans.err]
    ELSE IF a.ans.status = 200
        THEN IF a.ans.body = "garbage" THEN [mbid |-> 0, exc |-> a.ans.err]
             ELSE [mbid |-> FirstMbid(a.recordings), exc |-> "none"]
    ELSE [mbid |-> 0, exc |-> "none"]

\* Lines 83-121: an exception of the try block that line 119 catches gives
\* None.
search_mbid_by_track(a) ==
    IF SearchBody(a).exc # "none" /\ SearchCatches(SearchBody(a).exc)
        THEN [mbid |-> 0, exc |-> "none"]
        ELSE SearchBody(a)

(***************************************************************************)
(* AcousticBrainzAnalyzer.get_track_bpm_by_mbid                            *)
(***************************************************************************)
\* The two except clauses around the whole body: a RequestException becomes
\* an ExternalAPIError, every other Exception a BPMAnalysisError.
MbidReraise(c) ==
    IF IsInstance(c, "RequestException") THEN "ExternalAPIError"
    ELSE "BPMAnalysisError"

\* Every answer to a document fetch, with the tempo the extraction function
\* finds in it.
HighLevelAnswers ==
    {[ans |-> Json, bpm |-> _extract_bpm_from_highlevel(d)] : d \in HighLevelDocs}
    \cup {[ans |-> a, bpm |-> None] :
            a \in NoAnswer \cup Garbage \cup {Status(404), Status(500)}}

LowLevelAnswers ==
    {[ans |-> Json, bpm |-> _extract_bpm_from_lowlevel(d)] : d \in LowLevelDocs}
    \cup {[ans |-> a, bpm |-> None] :
            a \in NoAnswer \cup Garbage \cup {Status(404), Status(500)}}

\* Mutant: the high-level branch returns what it extracted without the
\* "if bpm" test, so a document without a tempo ends the lookup.
HighLevelPhase_ReturnsUnchecked(a) ==
    IF a.ans.status = 0 THEN Raised(MbidReraise(a.ans.err))
    ELSE IF a.ans.status = 200
        THEN IF a.ans.body = "garbage" THEN Raised(MbidReraise(a.ans.err))
             ELSE Returned(a.bpm)
    ELSE Pending

\* Lines 47-56: the high-level fetch.  Pending: the function goes on to the
\* low-level fetch.
HighLevelPhase(a) ==
    IF a.ans.status = 0 THEN Raised(MbidReraise(a.ans.err))
    ELSE IF a.ans.status = 200
        THEN IF a.ans.body = "garbage" THEN Raised(MbidReraise(a.ans.err))
             ELSE IF Truthy(a.bpm) THEN Returned(a.bpm)
             ELSE Pending
    ELSE Pending

\* Lines 58-74: the low-level fetch.
LowLevelPhase(a) ==
    IF a.ans.status = 0 THEN Raised(MbidReraise(a.ans.err))
    ELSE IF a.ans.status = 200
        THEN IF a.ans.body = "garbage" THEN Raised(MbidReraise(a.ans.err))
             ELSE IF Truthy(a.bpm) THEN Returned(a.bpm)
             ELSE Returned(None)
    ELSE IF a.ans.status = 404 THEN Raised(MbidReraise("DataNotFoundError"))
    ELSE Raised(MbidReraise("ExternalAPIError"))

(***************************************************************************)
(* GetSongBPMAnalyzer.get_track_bpm                                        *)
(***************************************************************************)
\* One entry of data['search']: whether its artist and its title match the
\* cleaned search terms, and its tempo field.
GsTempos == {JNum(x) : x \in {-1, 0, 90, 120}} \cup {JOther, JAbsent}
GsResults ==
    [artist_match : BOOLEAN, track_match : BOOLEAN, tempo : GsTempos]

\* data['search']: missing, a list, or (the service's error form) no list.
GsDocs ==
    {[search |-> "list", results |-> s] : s \in SeqsUpTo(GsResults, MaxResults)}
    \cup {[search |-> k, results |-> <<>>] : k \in {"absent", "other"}}

\* Mutant: a result is a good match as soon as its artist matches.
_is_good_match_ArtistOnly(result) == result.artist_match

\* Line 140: return artist_match and track_match
_is_good_match(result) == result.artist_match /\ result.track_match

\* float(result.get('tempo', 0)): 0 for a missing field, a ValueError for a
\* value that is no number.
FloatRaises(tempo) == tempo.t = "other"
FloatOf(tempo) == IF tempo.t = "num" THEN tempo.v ELSE 0

\* Lines 56-61: the loop over the results.  Pending: the loop ended without
\* returning.
RECURSIVE GoodMatchLoop(_)
GoodMatchLoop(results) ==
    IF results = <<>> THEN Pending
    ELSE IF _is_good_match(Head(results))
        THEN IF FloatRaises(Head(results).tempo) THEN Raised("ValueError")
             ELSE IF FloatOf(Head(results).tempo) > 0
                 THEN Returned(Some(FloatOf(Head(results).tempo)))
             ELSE GoodMatchLoop(Tail(results))
    ELSE GoodMatchLoop(Tail(results))

\* Lines 63-68: the first result, whatever it matches.
FirstResult(results) ==
    IF FloatRaises(results[1].tempo) THEN Raised("ValueError")
    ELSE IF FloatOf(results[1].tempo) > 0
        THEN Returned(Some(FloatOf(results[1].tempo)))
    ELSE Returned(None)

\* Lines 54-71: a parsed answer of status 200.
GsParsed(data) ==
    IF data.search = "absent" THEN Returned(None)
    ELSE IF data.search = "other" THEN Raised("AttributeError")
    ELSE IF data.results = <<>> THEN Returned(None)
    ELSE IF GoodMatchLoop(data.results).kind # "pending"
        THEN GoodMatchLoop(data.results)
    ELSE FirstResult(data.results)

\* Lines 83-94: the except clauses around the whole body.
GsReraise(c) ==
    IF IsInstance(c, "Timeout") THEN "ExternalAPIError"
    ELSE IF IsInstance(c, "RequestException") THEN "ExternalAPIError"
    ELSE IF IsInstance(c, "ValueError") \/ IsInstance(c, "KeyError")
        THEN "BPMAnalysisError"
    ELSE "BPMAnalysisError"

\* What happens inside the try block for an answer.
GsBody(a) ==
    IF a.ans.status = 0 THEN Raised(a.ans.err)
    ELSE IF a.ans.status = 200
        THEN IF a.ans.body = "garbage" THEN Raised(a.ans.err) ELSE a.parsed
    ELSE Raised("ExternalAPIError")

\* get_track_bpm: the try block, then the except clauses.
GsGetTrackBpm(a) ==
    IF GsBody(a).kind = "raise" THEN Raised(GsReraise(GsBody(a).exc))
    ELSE GsBody(a)

GsAnswers ==
    {[ans |-> Json, parsed |-> GsParsed(d)] : d \in GsDocs}
    \cup {[ans |-> a, parsed |-> Pending] :
            a \in NoAnswer \cup Garbage \cup {Status(429), Status(401), Status(500)}}

(***************************************************************************)
(* Track and the Spotify artist search.                                    *)
(***************************************************************************)
\* A Track as the parsing layer hands it over: no bpm, no bpm_source, genres [].
FreshTrack == [bpm |-> None, bpm_source |-> "None", genres |-> <<>>]

\* A Track constructed with its enrichment fields given.
EnrichedTrack == [bpm |-> Some(100), bpm_source |-> "spotify", genres |-> <<"pop">>]

\* The lists analyze_tracks is called with: all fresh, or all enriched before.
InputLists ==
    {[k \in 1..n |-> t] : n \in 0..MaxTracks, t \in {FreshTrack, EnrichedTrack}}

GenreLists == {<<>>, <<"rock">>}

\* sp.search(q="artist:...", type="artist", limit=1): it raises, it finds no
\* artist, or it finds one, whose record has a genres list or lacks the key.
ArtistSearchAnswers ==
    {[kind |-> "raise", exc |-> e, genres |-> <<>>] : e \in {"SpotifyException", "RequestException"}}
    \cup {[kind |-> "empty", exc |-> "none", genres |-> <<>>]}
    \cup {[kind |-> "nokey", exc |-> "KeyError", genres |-> <<>>]}
    \cup {[kind |-> "artist", exc |-> "none", genres |-> g] : g \in GenreLists}

\* What the try block of get_artist_genres raises for an answer ("none": nothing).
ArtistSearchRaises(a) ==
    IF a.kind \in {"raise", "nokey"} THEN a.exc ELSE "none"

\* Mutant: an artist without genres counts as no artist.
get_artist_genres_NeedsGenres(a) ==
    IF ArtistSearchRaises(a) # "none"
        THEN IF IsInstance(ArtistSearchRaises(a), "Exception")
             THEN [ret |-> FALSE, exc |-> "GenreAnalysisError", msg |-> "Failed to get genres"]
             ELSE [ret |-> FALSE, exc |-> ArtistSearchRaises(a), msg |-> "other"]
    ELSE [ret |-> a.kind = "artist" /\ a.genres # <<>>, exc |-> "none", msg |-> "none"]

\* get_artist_genres: True with the genres of the first artist, False without
\* an artist; except Exception turns whatever was raised into GenreAnalysisError.
get_artist_genres(a) ==
    IF ArtistSearchRaises(a) # "none"
        THEN IF IsInstance(ArtistSearchRaises(a), "Exception")
             THEN [ret |-> FALSE, exc |-> "GenreAnalysisError", msg |-> "Failed to get genres"]
             ELSE [ret |-> FALSE, exc |-> ArtistSearchRaises(a), msg |-> "other"]
    ELSE [ret |-> a.kind = "artist", exc |-> "none", msg |-> "none"]

\* Mutant: analyze_track ignores the bool get_artist_genres returns.
GenreStepOf_IgnoresFalse(r) == r

\* analyze_track lines 138-143: a False result raises GenreAnalysisError, a
\* raised GenreAnalysisError is raised again.
GenreStepOf(r) ==
    IF r.exc # "none" THEN r
    ELSE IF ~r.ret
        THEN [ret |-> FALSE, exc |-> "GenreAnalysisError", msg |-> "No genres found"]
    ELSE r

(***************************************************************************)
(* MusicAnalyzer: the except clauses.                                      *)
(***************************************************************************)
\* Mutant: the wrapper catches ExternalAPIError alone.
AcousticBrainzCatches_OnlyApiError(exc) == IsInstance(exc, "ExternalAPIError")

\* _get_bpm_from_acousticbrainz lines 76-81:
\* except (ExternalAPIError, BPMAnalysisError), then except Exception.
AcousticBrainzCatches(exc) ==
    \/ IsInstance(exc, "ExternalAPIError")
    \/ IsInstance(exc, "BPMAnalysisError")
    \/ IsInstance(exc, "Exception")

\* _get_bpm_from_getsongbpm lines 98-103: the same two clauses.
GetSongBpmCatches(exc) ==
    \/ IsInstance(exc, "ExternalAPIError")
    \/ IsInstance(exc, "BPMAnalysisError")
    \/ IsInstance(exc, "Exception")

\* analyze_track line 133: except (SpotifyQuotaExceededError, BPMAnalysisError).
AnalyzeTrackCatches(exc) ==
    \/ IsInstance(exc, "SpotifyQuotaExceededError")
    \/ IsInstance(exc, "BPMAnalysisError")

\* Mutant: the loop catches BPMAnalysisError instead of Exception.
AnalyzeTracksCatches_OnlyBpmError(exc) == IsInstance(exc, "BPMAnalysisError")

\* analyze_tracks line 159: except Exception.
AnalyzeTracksCatches(exc) == IsInstance(exc, "Exception")

\* Mutant: the AcousticBrainz wrapper assigns track.bpm and track.bpm_source
\* whatever get_track_bpm returned.
AcousticBrainzWrapper_WritesNone(o) ==
    IF o.kind = "raise"
        THEN [ok |-> FALSE, writes |-> FALSE,
              exc |-> IF AcousticBrainzCatches(o.exc) THEN "none" ELSE o.exc]
    ELSE [ok |-> Truthy(o.val), writes |-> TRUE, exc |-> "none"]

\* _get_bpm_from_acousticbrainz, given what acousticbrainz.get_track_bpm did:
\* ok is the returned bool, exc an exception the wrapper lets through.
\* writes tells whether track.bpm and track.bpm_source are assigned.
_get_bpm_from_acousticbrainz(o) ==
    IF o.kind = "raise"
        THEN [ok |-> FALSE, writes |-> FALSE,
              exc |-> IF AcousticBrainzCatches(o.exc) THEN "none" ELSE o.exc]
    ELSE [ok |-> Truthy(o.val), writes |-> Truthy(o.val), exc |-> "none"]

\* Mutant: track.bpm and track.bpm_source are assigned before "if bpm".
GetSongBpmWrapper_WritesFirst(o) ==
    IF o.kind = "raise"
        THEN [ok |-> FALSE, writes |-> FALSE,
              exc |-> IF GetSongBpmCatches(o.exc) THEN "none" ELSE o.exc]
    ELSE [ok |-> Truthy(o.val), writes |-> TRUE, exc |-> "none"]

\* _get_bpm_from_getsongbpm, given what getsongbpm.get_track_bpm did.
_get_bpm_from_getsongbpm(o) ==
    IF o.kind = "raise"
        THEN [ok |-> FALSE, writes |-> FALSE,
              exc |-> IF GetSongBpmCatches(o.exc) THEN "none" ELSE o.exc]
    ELSE [ok |-> Truthy(o.val), writes |-> Truthy(o.val), exc |-> "none"]

\* Mutant: GetSongBPM is tried whatever AcousticBrainz returned.
TriesGetSongBpm_Always(abOk) == getsongbpm

\* get_bpm_with_fallback lines 51-56: GetSongBPM is tried when it is
\* configured and AcousticBrainz did not return True.
TriesGetSongBpm(abOk) == getsongbpm /\ ~abOk

\* Mutant: after a provider returned without a BPM, GetSongBPM is searched
\* (again).
BpmStepOf_AsksAgain(w, triesNext) ==
    IF w.exc # "none"
        THEN [step |-> IF AnalyzeTrackCatches(w.exc) THEN "error" ELSE "fatal", exc |-> w.exc]
    ELSE IF triesNext THEN [step |-> "next", exc |-> "none"]
    ELSE IF w.ok THEN [step |-> "found", exc |-> "none"]
    ELSE [step |-> "next", exc |-> "none"]

\* Mutant: analyze_track raises BPMAnalysisError when no source gave a BPM,
\* as it does for genres.
BpmStepOf_RaisesWithoutBpm(w, triesNext) ==
    IF w.exc # "none"
        THEN [step |-> IF AnalyzeTrackCatches(w.exc) THEN "error" ELSE "fatal", exc |-> w.exc]
    ELSE IF triesNext THEN [step |-> "next", exc |-> "none"]
    ELSE IF w.ok THEN [step |-> "found", exc |-> "none"]
    ELSE [step |-> "fatal", exc |-> "BPMAnalysisError"]

\* analyze_track lines 129-135 over get_bpm_with_fallback lines 51-59, after
\* a wrapper gave w: the BPM step is found or none (get_bpm_with_fallback
\* returned True or False), error (it raised and analyze_track caught it),
\* fatal (it raised and analyze_track let it through), or next (line 55 is
\* reached with GetSongBPM configured: the next provider is tried).
BpmStepOf(w, triesNext) ==
    IF w.exc # "none"
        THEN [step |-> IF AnalyzeTrackCatches(w.exc) THEN "error" ELSE "fatal", exc |-> w.exc]
    ELSE IF triesNext THEN [step |-> "next", exc |-> "none"]
    ELSE IF w.ok THEN [step |-> "found", exc |-> "none"]
    ELSE [step |-> "none", exc |-> "none"]

(***************************************************************************)
(* The state machine.                                                      *)
(***************************************************************************)
Init ==
    /\ acousticbrainz \in BOOLEAN
    /\ getsongbpm \in BOOLEAN
    /\ tracks \in InputLists
    /\ input = tracks
    /\ genreStep = [k \in 1..Len(tracks) |-> "pending"]
    /\ idx = 1
    /\ pc = "loop"
    /\ mbid = 0
    /\ successful_tracks = <<>>
    /\ failed_tracks = <<>>
    /\ calls = <<>>
    /\ abResult = NotCalled
    /\ gsResult = NotCalled
    /\ bpmStep = "pending"
    /\ escaped = "none"
    /\ recordings = <<>>
    /\ op = [fn |-> "analyze_tracks"]
    /\ ret = Pending
    /\ heap = <<>>

\* A request and its answer, as the log of the current track keeps it.
Call(req, a, bpm) ==
    [req |-> req, status |-> a.status, body |-> a.body, bpm |-> bpm.v]

\* The loop of analyze_tracks stays in the current track.
StayInTrack(next) ==
    /\ pc' = next
    /\ UNCHANGED <<idx, successful_tracks, failed_tracks, escaped>>

\* Mutant: the analyzed track is put at the front of successful_tracks.
TrackSucceeds_AtFront ==
    /\ successful_tracks' = <<idx>> \o successful_tracks
    /\ idx' = idx + 1
    /\ pc' = "loop"
    /\ UNCHANGED <<failed_tracks, escaped>>

\* analyze_tracks lines 157-158: analyze_track returned.
TrackSucceeds ==
    /\ successful_tracks' = Append(successful_tracks, idx)
    /\ idx' = idx + 1
    /\ pc' = "loop"
    /\ UNCHANGED <<failed_tracks, escaped>>

\* analyze_tracks lines 159-161: analyze_track raised exc, with str(exc) = msg.
TrackRaises(exc, msg) ==
    IF AnalyzeTracksCatches(exc)
        THEN /\ failed_tracks' = Append(failed_tracks, [track |-> idx, error |-> msg])
             /\ idx' = idx + 1
             /\ pc' = "loop"
             /\ UNCHANGED <<successful_tracks, escaped>>
        ELSE /\ escaped' = exc
             /\ pc' = "aborted"
             /\ UNCHANGED <<idx, successful_tracks, failed_tracks>>

\* Mutant: the wrappers record the BPM as Spotify's.
BpmSource_Spotify(provider) == "spotify"

\* track.bpm_source as the wrapper of a provider writes it.
BpmSource(provider) == provider

\* A wrapper returned w for the provider outcome o: the track is written when
\* w.writes, and the BPM step ends or goes on to the next provider.
WrapperDone(w, o, source, triesNext) ==
    LET b == BpmStepOf(w, triesNext) IN
    /\ tracks' = IF w.writes
                    THEN [tracks EXCEPT ![idx].bpm = o.val, ![idx].bpm_source = source]
                    ELSE tracks
    /\ bpmStep' = IF b.step = "next" THEN bpmStep ELSE b.step
    /\ IF b.step = "fatal" THEN TrackRaises(b.exc, "bpm")
       ELSE IF b.step = "next" THEN StayInTrack("gs_search")
       ELSE StayInTrack("genre")

\* acousticbrainz.get_track_bpm ended with outcome o.
AcousticBrainzDone(o) ==
    /\ abResult' = o
    /\ mbid' = 0
    /\ WrapperDone(_get_bpm_from_acousticbrainz(o), o, BpmSource("acousticbrainz"),
                   TriesGetSongBpm(_get_bpm_from_acousticbrainz(o).ok))

\* analyze_tracks line 154-157 and get_bpm_with_fallback line 51: the loop
\* takes the next track and turns to the first configured provider.
StartTrack ==
    /\ pc = "loop"
    /\ idx <= Len(tracks)
    /\ calls' = <<>>
    /\ abResult' = NotCalled
    /\ gsResult' = NotCalled
    /\ bpmStep' = IF acousticbrainz \/ TriesGetSongBpm(FALSE) THEN "pending" ELSE "none"
    /\ pc' = IF acousticbrainz THEN "mb_search"
             ELSE IF TriesGetSongBpm(FALSE) THEN "gs_search"
             ELSE "genre"
    /\ recordings' = <<>>
    /\ UNCHANGED <<acousticbrainz, getsongbpm, tracks, idx, mbid, successful_tracks,
                   failed_tracks, genreStep, escaped, input, unitVars>>

\* search_mbid_by_track, and get_track_bpm lines 135-137: without an mbid
\* get_track_bpm returns None, with one it goes on to get_track_bpm_by_mbid.
SearchMbid ==
    /\ pc = "mb_search"
    /\ \E a \in SearchAnswers :
        LET found == search_mbid_by_track(a) IN
        /\ calls' = Append(calls, Call("mb_search", a.ans, None))
        /\ recordings' = a.recordings
        /\ IF found.exc # "none" THEN AcousticBrainzDone(Raised(found.exc))
           ELSE IF found.mbid # 0
             THEN /\ mbid' = found.mbid
                  /\ StayInTrack("ab_high")
                  /\ UNCHANGED <<tracks, abResult, bpmStep>>
             ELSE AcousticBrainzDone(Returned(None))
    /\ UNCHANGED <<acousticbrainz, getsongbpm, gsResult, genreStep, input, unitVars>>

\* get_track_bpm_by_mbid lines 47-56.
FetchHighLevel ==
    /\ pc = "ab_high"
    /\ \E a \in HighLevelAnswers :
        /\ calls' = Append(calls, Call("ab_high", a.ans, a.bpm))
        /\ IF HighLevelPhase(a).kind = "pending"
             THEN /\ StayInTrack("ab_low")
                  /\ UNCHANGED <<tracks, abResult, bpmStep, mbid>>
             ELSE AcousticBrainzDone(HighLevelPhase(a))
    /\ recordings' = <<>>
    /\ UNCHANGED <<acousticbrainz, getsongbpm, gsResult, genreStep, input, unitVars>>

\* get_track_bpm_by_mbid lines 58-74.
FetchLowLevel ==
    /\ pc = "ab_low"
    /\ \E a \in LowLevelAnswers :
        /\ calls' = Append(calls, Call("ab_low", a.ans, a.bpm))
        /\ AcousticBrainzDone(LowLevelPhase(a))
    /\ recordings' = <<>>
    /\ UNCHANGED <<acousticbrainz, getsongbpm, gsResult, genreStep, input, unitVars>>

\* getsongbpm.get_track_bpm under _get_bpm_from_getsongbpm.
SearchGetSongBpm ==
    /\ pc = "gs_search"
    /\ \E a \in GsAnswers :
        /\ calls' = Append(calls, Call("gs_search", a.ans, None))
        /\ gsResult' = GsGetTrackBpm(a)
        /\ WrapperDone(_get_bpm_from_getsongbpm(GsGetTrackBpm(a)), GsGetTrackBpm(a),
                       BpmSource("getsongbpm"), FALSE)
    /\ recordings' = <<>>
    /\ UNCHANGED <<acousticbrainz, getsongbpm, abResult, mbid, genreStep, input, unitVars>>

\* get_artist_genres under analyze_track lines 138-145, and the loop body's end.
SearchArtist ==
    /\ pc = "genre"
    /\ \E a \in ArtistSearchAnswers :
        LET r == GenreStepOf(get_artist_genres(a)) IN
        /\ calls' = Append(calls, [req |-> "artist_search", status |-> 0,
                                   body |-> a.kind, bpm |-> 0])
        /\ tracks' = IF get_artist_genres(a).ret
                        THEN [tracks EXCEPT ![idx].genres = a.genres]
                        ELSE tracks
        /\ genreStep' = [genreStep EXCEPT ![idx] = IF r.exc = "none" THEN "ok" ELSE r.exc]
        /\ IF r.exc = "none" THEN TrackSucceeds ELSE TrackRaises(r.exc, r.msg)
    /\ recordings' = <<>>
    /\ UNCHANGED <<acousticbrainz, getsongbpm, abResult, gsResult, bpmStep, mbid, input,
                   unitVars>>

\* analyze_tracks lines 164-170: the loop is over, successful_tracks is returned.
Return ==
    /\ pc = "loop"
    /\ idx > Len(tracks)
    /\ pc' = "done"
    /\ UNCHANGED <<acousticbrainz, getsongbpm, tracks, idx, mbid, successful_tracks,
                   failed_tracks, calls, abResult, gsResult, bpmStep, genreStep, escaped,
                   input, recordings, unitVars>>

Next ==
    \/ StartTrack
    \/ SearchMbid
    \/ FetchHighLevel
    \/ FetchLowLevel
    \/ SearchGetSongBpm
    \/ SearchArtist
    \/ Return

Spec == Init /\ [][Next]_vars

(***************************************************************************)
(* Single calls.  A function that only computes from its arguments is      *)
(* taken on its own: op holds the call, drawn by the initial state, and    *)
(* one step applies the function and leaves its outcome in ret.  No        *)
(* analyze_tracks call runs meanwhile.                                     *)
(***************************************************************************)
Idle ==
    /\ acousticbrainz = FALSE
    /\ getsongbpm = FALSE
    /\ tracks = <<>>
    /\ input = <<>>
    /\ genreStep = <<>>
    /\ idx = 1
    /\ pc = "idle"
    /\ mbid = 0
    /\ successful_tracks = <<>>
    /\ failed_tracks = <<>>
    /\ calls = <<>>
    /\ abResult = NotCalled
    /\ gsResult = NotCalled
    /\ bpmStep = "pending"
    /\ escaped = "none"
    /\ recordings = <<>>

pipelineVars ==
    <<acousticbrainz, getsongbpm, tracks, idx, pc, mbid, successful_tracks,
      failed_tracks, calls, abResult, gsResult, bpmStep, genreStep, escaped,
      input, recordings>>

\* GetSongBPMAnalyzer.get_track_bpm on a search answered with status 200 and
\* the document op.data.
GsInit ==
    /\ Idle
    /\ op \in {[fn |-> "get_track_bpm", data |-> d] : d \in GsDocs}
    /\ ret = Pending
    /\ heap = <<>>

GsGetTrackBpmCall ==
    /\ op.fn = "get_track_bpm"
    /\ ret = Pending
    /\ ret' = GsGetTrackBpm([ans |-> Json, parsed |-> GsParsed(op.data)])
    /\ UNCHANGED <<pipelineVars, op, heap>>

GsNext == GsGetTrackBpmCall

GsSpec == GsInit /\ [][GsNext]_vars

(***************************************************************************)
(* Track (src/src/models/track.py).  A str is the sequence of its          *)
(* characters.                                                             *)
(***************************************************************************)
Whitespace == {" "}
Characters == Whitespace \cup {"a"}

\* str.strip(): the string without its leading and trailing whitespace.
RECURSIVE Strip(_)
Strip(str) ==
    IF str = <<>> THEN <<>>
    ELSE IF Head(str) \in Whitespace THEN Strip(Tail(str))
    ELSE IF str[Len(str)] \in Whitespace THEN Strip(SubSeq(str, 1, Len(str) - 1))
    ELSE str

\* Mutant: only the empty string is refused.
Blank_EmptyOnly(str) == str = <<>>

\* Lines 25, 28, 31, 34: not x or not x.strip()
Blank(str) == str = <<>> \/ Strip(str) = <<>>

MinPopularity == 0
MaxPopularity == 100

\* Mutant: the two ends of the popularity range are refused as well.
PopularityOutOfRange_EndsToo(popularity) ==
    popularity <= MinPopularity \/ popularity >= MaxPopularity

\* Line 37: self.popularity < 0 or self.popularity > 100
PopularityOutOfRange(popularity) ==
    popularity < MinPopularity \/ popularity > MaxPopularity

\* An Optional[List[str]]: None, or a list.
NoList == [some |-> FALSE, v |-> <<>>]
SomeList(l) == [some |-> TRUE, v |-> l]

\* Track(id, name, artist, uri, popularity): the dataclass __init__ with the
\* defaults of lines 16-18, then __post_init__.
TrackNew(a) ==
    IF \/ Blank(a.id)
       \/ Blank(a.name)
       \/ Blank(a.artist)
       \/ Blank(a.uri)
       \/ PopularityOutOfRange(a.popularity)
        THEN [kind |-> "raise", exc |-> "TrackValidationError"]
        ELSE [kind |-> "return",
              val |-> [id |-> a.id, name |-> a.name, artist |-> a.artist,
                       uri |-> a.uri, popularity |-> a.popularity, bpm |-> None,
                       genres |-> SomeList(<<>>), bpm_source |-> "None"],
              exc |-> "none"]

Popularities ==
    {MinPopularity - 1, MinPopularity, 50, MaxPopularity, MaxPopularity + 1}

TrackInit ==
    /\ Idle
    /\ op \in [fn : {"Track"},
               id : SeqsUpTo(Characters, MaxIdLen),
               name : SeqsUpTo(Characters, MaxIdLen),
               artist : SeqsUpTo(Characters, MaxIdLen),
               uri : SeqsUpTo(Characters, MaxIdLen),
               popularity : Popularities]
    /\ ret = Pending
    /\ heap = <<>>

TrackConstruct ==
    /\ op.fn = "Track"
    /\ ret.kind = "pending"
    /\ ret' = TrackNew(op)
    /\ UNCHANGED <<pipelineVars, op, heap>>

TrackNext == TrackConstruct

TrackSpec == TrackInit /\ [][TrackNext]_vars

(***************************************************************************)
(* PlaylistManager: the three filters (playlist_manager.py lines 63-105).  *)
(* heap.tracks are the Track objects and heap.lists the list objects; a    *)
(* list holds references to Track objects, and a reference to a list is    *)
(* its position in heap.lists.  The list handed to a filter is list 1.     *)
(***************************************************************************)
\* An Optional[str]: None, or a string.
NoStr == [some |-> FALSE, v |-> <<>>]
SomeStr(str) == [some |-> TRUE, v |-> str]

\* str.lower(), on the letters used here.
LowerChar(c) ==
    CASE c = "R" -> "r"
      [] c = "O" -> "o"
      [] c = "A" -> "a"
      [] OTHER -> c
Lower(str) == [k \in 1..Len(str) |-> LowerChar(str[k])]

\* sub in str
Contains(sub, str) ==
    \E i \in 0..(Len(str) - Len(sub)) : SubSeq(str, i + 1, i + Len(sub)) = sub

\* A new list object with the given content: the heap after it, and the
\* reference to it.
Alloc(h, content) ==
    [heap |-> [h EXCEPT !.lists = Append(@, content)], ref |-> Len(h.lists) + 1]

\* Mutant: the upper end of the range is left out.
BpmInRange_UpperExclusive(track, min_bpm, max_bpm) ==
    track.bpm.some /\ min_bpm <= track.bpm.v /\ track.bpm.v < max_bpm

\* Line 67: track.bpm is not None and min_bpm <= track.bpm <= max_bpm
BpmInRange(track, min_bpm, max_bpm) ==
    track.bpm.some /\ min_bpm <= track.bpm.v /\ track.bpm.v <= max_bpm

\* Mutant: the loop leaves out the first track of the list.
filter_tracks_by_bpm_SkipsFirst(h, list, min_bpm, max_bpm) ==
    Alloc(h, SelectSeq(IF h.lists[list] = <<>> THEN <<>> ELSE Tail(h.lists[list]),
                       LAMBDA t : BpmInRange(h.tracks[t], min_bpm, max_bpm)))

\* Lines 63-71.
filter_tracks_by_bpm(h, list, min_bpm, max_bpm) ==
    Alloc(h, SelectSeq(h.lists[list],
                       LAMBDA t : BpmInRange(h.tracks[t], min_bpm, max_bpm)))

\* Mutant: the genre is compared as it is written.
GenreMatches_CaseSensitive(track, genre_keyword_lower) ==
    /\ track.genres.some
    /\ track.genres.v # <<>>
    /\ \E k \in 1..Len(track.genres.v) :
            Contains(genre_keyword_lower, track.genres.v[k])

\* Lines 79-84: if track.genres, and genre_keyword_lower in genre.lower()
\* for some genre of the track.
GenreMatches(track, genre_keyword_lower) ==
    /\ track.genres.some
    /\ track.genres.v # <<>>
    /\ \E k \in 1..Len(track.genres.v) :
            Contains(genre_keyword_lower, Lower(track.genres.v[k]))

\* Lines 73-87: a matching track is appended once (break).
filter_tracks_by_genre(h, list, genre_keyword) ==
    Alloc(h, SelectSeq(h.lists[list],
                       LAMBDA t : GenreMatches(h.tracks[t], Lower(genre_keyword))))

\* Line 97: if min_bpm is not None and max_bpm is not None
BpmStepApplies(min_bpm, max_bpm) == min_bpm.some /\ max_bpm.some

\* Mutant: the genre step runs for every keyword that is not None.
GenreStepApplies_NotNone(genre_keyword) == genre_keyword.some

\* Line 101: if genre_keyword
GenreStepApplies(genre_keyword) == genre_keyword.some /\ genre_keyword.v # <<>>

\* Mutant: the steps work on the list that was handed in, not on a copy.
filter_tracks_combined_NoCopy(h, list, min_bpm, max_bpm, genre_keyword) ==
    LET copied == [heap |-> h, ref |-> list]
        ranged == IF BpmStepApplies(min_bpm, max_bpm)
                    THEN filter_tracks_by_bpm(copied.heap, copied.ref, min_bpm.v, max_bpm.v)
                    ELSE copied
    IN  IF GenreStepApplies(genre_keyword)
            THEN filter_tracks_by_genre(ranged.heap, ranged.ref, genre_keyword.v)
            ELSE ranged

\* Mutant: the BPM step is left out.
filter_tracks_combined_NoBpmStep(h, list, min_bpm, max_bpm, genre_keyword) ==
    LET copied == Alloc(h, h.lists[list])
    IN  IF GenreStepApplies(genre_keyword)
            THEN filter_tracks_by_genre(copied.heap, copied.ref, genre_keyword.v)
            ELSE copied

\* Lines 89-105: tracks.copy(), then the BPM step, then the genre step.
filter_tracks_combined(h, list, min_bpm, max_bpm, genre_keyword) ==
    LET copied == Alloc(h, h.lists[list])
        ranged == IF BpmStepApplies(min_bpm, max_bpm)
                    THEN filter_tracks_by_bpm(copied.heap, copied.ref, min_bpm.v, max_bpm.v)
                    ELSE copied
    IN  IF GenreStepApplies(genre_keyword)
            THEN filter_tracks_by_genre(ranged.heap, ranged.ref, genre_keyword.v)
            ELSE ranged

\* The Track objects a list may hold, by their bpm and genres.
ListedBpms == {None} \cup {Some(x) : x \in {99, 100, 130, 131}}
ListedGenres ==
    {NoList, SomeList(<<>>), SomeList(<< <<"R", "o">> >>), SomeList(<< <<"o", " ", "p">> >>),
     SomeList(<< <<"R", "o">>, <<"o", " ", "p">> >>)}
TrackObjects == [bpm : ListedBpms, genres : ListedGenres]

\* A heap with the Track objects ts and one list that holds them in order.
HeapOf(ts) == [lists |-> << [k \in 1..Len(ts) |-> k] >>, tracks |-> ts]

Keywords == {<<>>, <<" ">>, <<"R", "O">>, <<"o">>, <<"x">>}

\* The calls of the three filters on list 1 of heap h.
FilterCalls(h) ==
    [fn : {"filter_tracks_by_bpm"}, tracks : {1}, given : {h},
     min_bpm : {Some(100), Some(130)}, max_bpm : {Some(100), Some(130)},
     genre_keyword : {NoStr}]
    \cup [fn : {"filter_tracks_by_genre"}, tracks : {1}, given : {h},
          min_bpm : {None}, max_bpm : {None},
          genre_keyword : {SomeStr(k) : k \in Keywords}]
    \cup [fn : {"filter_tracks_combined"}, tracks : {1}, given : {h},
          min_bpm : {None, Some(100)}, max_bpm : {None, Some(130)},
          genre_keyword : {NoStr} \cup {SomeStr(k) : k \in Keywords}]

FilterInit ==
    /\ Idle
    /\ heap \in {HeapOf(ts) : ts \in SeqsUpTo(TrackObjects, MaxListed)}
    /\ op \in FilterCalls(heap)
    /\ ret = Pending

\* A filter returned: the heap is as the call left it, ret holds the
\* reference to the returned list.
FilterReturns(made) ==
    /\ ret.kind = "pending"
    /\ heap' = made.heap
    /\ ret' = [kind |-> "return", ref |-> made.ref]
    /\ UNCHANGED <<pipelineVars, op>>

FilterByBpm ==
    /\ op.fn = "filter_tracks_by_bpm"
    /\ FilterReturns(filter_tracks_by_bpm(heap, op.tracks, op.min_bpm.v, op.max_bpm.v))

FilterByGenre ==
    /\ op.fn = "filter_tracks_by_genre"
    /\ FilterReturns(filter_tracks_by_genre(heap, op.tracks, op.genre_keyword.v))

FilterCombined ==
    /\ op.fn = "filter_tracks_combined"
    /\ FilterReturns(filter_tracks_combined(heap, op.tracks, op.min_bpm, op.max_bpm,
                                            op.genre_keyword))

\* filter_tracks_by_bpm once more, with the same range, on the list it
\* returned: ret keeps the reference to the first result next to the second.
FilterByBpmAgain ==
    /\ op.fn = "filter_tracks_by_bpm"
    /\ ret.kind = "return"
    /\ LET made == filter_tracks_by_bpm(heap, ret.ref, op.min_bpm.v, op.max_bpm.v) IN
        /\ heap' = made.heap
        /\ ret' = [kind |-> "reapplied", ref |-> made.ref, first |-> ret.ref]
    /\ UNCHANGED <<pipelineVars, op>>

FilterNext ==
    \/ FilterByBpm
    \/ FilterByGenre
    \/ FilterCombined
    \/ FilterByBpmAgain

FilterSpec == FilterInit /\ [][FilterNext]_vars

(***************************************************************************)
(* GetSongBPMAnalyzer._similarity_score and the match rule of              *)
(* _is_good_match (getsongbpm_analyzer.py lines 118-157).  A score is the  *)
(* fraction num / den.                                                     *)
(***************************************************************************)
\* set(str.lower().replace(' ', ''))
CharSet(str) == {LowerChar(str[k]) : k \in {i \in 1..Len(str) : str[i] # " "}}

\* Lines 142-157.
_similarity_score(str1, str2) ==
    IF str1 = <<>> \/ str2 = <<>> THEN [num |-> 0, den |-> 1]
    ELSE IF CharSet(str1) = {} \/ CharSet(str2) = {} THEN [num |-> 0, den |-> 1]
    ELSE [num |-> Cardinality(CharSet(str1) \cap CharSet(str2)),
          den |-> Cardinality(CharSet(str1) \cup CharSet(str2))]

\* Mutant: a score of 0.7 is enough.
ScoreAbove_OrEqual(score) == score.num * 10 >= 7 * score.den

\* Lines 130 and 137: ... > 0.7
ScoreAbove(score) == score.num * 10 > 7 * score.den

\* Lines 127-131 and 134-138: one field of the result against the search
\* term; target is lowered by the caller's lines 123-124, found by 120-121.
FieldMatches(target, found) ==
    \/ Contains(Lower(target), Lower(found))
    \/ Contains(Lower(found), Lower(target))
    \/ ScoreAbove(_similarity_score(Lower(target), Lower(found)))

\* The strings compared: empty, a blank, short ones, and three that share
\* seven and eight of ten letters without one holding the other.
Compared ==
    {<<>>, <<" ">>, <<"a">>, <<"A", " ", "b">>, <<"b", "a">>, <<"a", "b">>,
     <<"g", "f", "e", "d", "c", "b", "a">>,
     <<"h", "g", "f", "e", "d", "c", "b", "a">>,
     <<"a", "b", "c", "d", "e", "f", "g", "h", "i", "j">>}

SimilarityInit ==
    /\ Idle
    /\ op \in [fn : {"_similarity_score", "_is_good_match"},
               str1 : Compared, str2 : Compared]
    /\ ret = Pending
    /\ heap = <<>>

SimilarityScore ==
    /\ op.fn = "_similarity_score"
    /\ ret.kind = "pending"
    /\ ret' = [kind |-> "return", score |-> _similarity_score(op.str1, op.str2)]
    /\ UNCHANGED <<pipelineVars, op, heap>>

\* _is_good_match for the artist str1 and a result with the artist name
\* str2, the title being the one searched for.
IsGoodMatch ==
    /\ op.fn = "_is_good_match"
    /\ ret.kind = "pending"
    /\ ret' = [kind |-> "return",
               val |-> _is_good_match([artist_match |-> FieldMatches(op.str1, op.str2),
                                       track_match |-> FieldMatches(<<"a">>, <<"a">>),
                                       tempo |-> JAbsent])]
    /\ UNCHANGED <<pipelineVars, op, heap>>

SimilarityNext ==
    \/ SimilarityScore
    \/ IsGoodMatch

SimilaritySpec == SimilarityInit /\ [][SimilarityNext]_vars

(***************************************************************************)
(* GetSongBPMAnalyzer._clean_search_term (lines 96-116).                   *)
(***************************************************************************)
\* Lines 102-106, in the order of the list.
suffixes_to_remove ==
    <<
       <<"-", " ", "R", "e", "m", "a", "s", "t", "e", "r", "e", "d">>,
       <<"-", " ", "R", "e", "m", "a", "s", "t", "e", "r">>,
       <<"-", " ", "R", "e", "m", "i", "x">>,
       <<"-", " ", "R", "a", "d", "i", "o", " ", "E", "d", "i", "t">>,
       <<"-", " ", "E", "x", "t", "e", "n", "d", "e", "d">>,
       <<"-", " ", "O", "r", "i", "g", "i", "n", "a", "l", " ", "M", "i", "x">>,
       <<"-", " ", "R", "a", "d", "i", "o", " ", "V", "e", "r", "s", "i", "o", "n">>,
       <<"-", " ", "A", "l", "b", "u", "m", " ", "V", "e", "r", "s", "i", "o", "n">>,
       <<"-", " ", "S", "i", "n", "g", "l", "e", " ", "V", "e", "r", "s", "i", "o", "n">>,
       <<"-", " ", "B", "o", "n", "u", "s", " ", "T", "r", "a", "c", "k">>,
       <<"-", " ", "D", "e", "l", "u", "x", "e">>,
       <<"-", " ", "E", "d", "i", "t">>
    >>

\* str.endswith(suffix)
EndsWith(str, suffix) ==
    /\ Len(suffix) <= Len(str)
    /\ SubSeq(str, Len(str) - Len(suffix) + 1, Len(str)) = suffix

\* Lines 109-111: one pass over the list from its k-th suffix on; a suffix
\* found at the end is cut off and the rest stripped.
RECURSIVE RemoveSuffixes(_, _)
RemoveSuffixes(cleaned, k) ==
    IF k > Len(suffixes_to_remove) THEN cleaned
    ELSE IF EndsWith(cleaned, suffixes_to_remove[k])
        THEN RemoveSuffixes(
                Strip(SubSeq(cleaned, 1, Len(cleaned) - Len(suffixes_to_remove[k]))),
                k + 1)
    ELSE RemoveSuffixes(cleaned, k + 1)

\* Line 114, ' '.join(cleaned.split()): no whitespace at the ends, one
\* space for every run of whitespace inside.
RECURSIVE SingleSpaces(_)
SingleSpaces(str) ==
    IF Len(str) < 2 THEN str
    ELSE IF str[1] \in Whitespace /\ str[2] \in Whitespace THEN SingleSpaces(Tail(str))
    ELSE <<IF str[1] \in Whitespace THEN " " ELSE str[1]>> \o SingleSpaces(Tail(str))

\* Lines 96-116.
_clean_search_term(term) ==
    IF term = <<>> THEN <<>>
    ELSE SingleSpaces(Strip(RemoveSuffixes(Strip(term), 1)))

\* A title followed by the listed suffixes picked, each after a space.
RECURSIVE WithSuffixes(_, _)
WithSuffixes(title, picked) ==
    IF picked = <<>> THEN title
    ELSE WithSuffixes(title \o <<" ">> \o suffixes_to_remove[Head(picked)], Tail(picked))

Terms ==
    {<<>>}
    \cup {WithSuffixes(<<"S">>, picked) :
            picked \in SeqsUpTo(1..Len(suffixes_to_remove), MaxSuffixes)}

CleanInit ==
    /\ Idle
    /\ op \in [fn : {"_clean_search_term"}, term : Terms]
    /\ ret = Pending
    /\ heap = <<>>

CleanSearchTerm ==
    /\ op.fn = "_clean_search_term"
    /\ ret.kind = "pending"
    /\ ret' = [kind |-> "return", val |-> _clean_search_term(op.term)]
    /\ UNCHANGED <<pipelineVars, op, heap>>

CleanNext == CleanSearchTerm

CleanSpec == CleanInit /\ [][CleanNext]_vars

(***************************************************************************)
(* AcousticBrainzAnalyzer._extract_bpm_from_lowlevel on a document of its  *)
(* own.                                                                    *)
(***************************************************************************)
LowLevelInit ==
    /\ Idle
    /\ op \in [fn : {"_extract_bpm_from_lowlevel"}, data : LowLevelDocs]
    /\ ret = Pending
    /\ heap = <<>>

ExtractLowLevel ==
    /\ op.fn = "_extract_bpm_from_lowlevel"
    /\ ret.kind = "pending"
    /\ ret' = [kind |-> "return", val |-> _extract_bpm_from_lowlevel(op.data)]
    /\ UNCHANGED <<pipelineVars, op, heap>>

LowLevelNext == ExtractLowLevel

LowLevelSpec == LowLevelInit /\ [][LowLevelNext]_vars

(***************************************************************************)
(* MusicAnalyzer.get_fallback_status (music_analyzer.py lines 172-188)     *)
(* with the is_available probe of each provider.  The probe request of a   *)
(* provider is one step; calls logs the probes, ret holds the status       *)
(* dictionary.                                                             *)
(***************************************************************************)
ProbeAnswers == NoAnswer \cup {Status(200), Status(404), Status(500), Status(503)}

\* is_available: response.status_code in [200, 404]; except Exception: False
is_available(a) == a.status \in {200, 404}

\* Mutant: a provider is probed whether it is configured or not.
ProbesProvider_Always(provider) == TRUE

\* Lines 182 and 185: if self.acousticbrainz / if self.getsongbpm
ProbesProvider(provider) == provider

StatusInit ==
    /\ acousticbrainz \in BOOLEAN
    /\ getsongbpm \in BOOLEAN
    /\ tracks \in InputLists
    /\ input = tracks
    /\ genreStep = [k \in 1..Len(tracks) |-> "pending"]
    /\ idx = 1
    /\ pc = "status"
    /\ mbid = 0
    /\ successful_tracks = <<>>
    /\ failed_tracks = <<>>
    /\ calls = <<>>
    /\ abResult = NotCalled
    /\ gsResult = NotCalled
    /\ bpmStep = "pending"
    /\ escaped = "none"
    /\ recordings = <<>>
    /\ op = [fn |-> "get_fallback_status"]
    /\ ret = Pending
    /\ heap = <<>>

\* What get_fallback_status leaves alone.
StatusFrame ==
    UNCHANGED <<acousticbrainz, getsongbpm, tracks, idx, mbid, successful_tracks,
                failed_tracks, abResult, gsResult, bpmStep, genreStep, escaped,
                input, recordings, op, heap>>

\* Lines 174-180: the dictionary with both providers not available.
StatusStart ==
    /\ pc = "status"
    /\ ret' = [kind |-> "building",
               status |-> [acousticbrainz_configured |-> acousticbrainz,
                           acousticbrainz_available |-> FALSE,
                           getsongbpm_configured |-> getsongbpm,
                           getsongbpm_available |-> FALSE,
                           fallback_enabled |-> (acousticbrainz \/ getsongbpm)]]
    /\ pc' = "probe_ab"
    /\ UNCHANGED calls
    /\ StatusFrame

\* Lines 182-183.
StatusAcousticBrainz ==
    /\ pc = "probe_ab"
    /\ IF ProbesProvider(acousticbrainz)
         THEN \E a \in ProbeAnswers :
                /\ calls' = Append(calls, Call("ab_probe", a, None))
                /\ ret' = [ret EXCEPT !.status.acousticbrainz_available = is_available(a)]
         ELSE UNCHANGED <<calls, ret>>
    /\ pc' = "probe_gs"
    /\ StatusFrame

\* Lines 185-188.
StatusGetSongBpm ==
    /\ pc = "probe_gs"
    /\ IF ProbesProvider(getsongbpm)
         THEN \E a \in ProbeAnswers :
                /\ calls' = Append(calls, Call("gs_probe", a, None))
                /\ ret' = [ret EXCEPT !.status.getsongbpm_available = is_available(a),
                                      !.kind = "return"]
         ELSE /\ ret' = [ret EXCEPT !.kind = "return"]
              /\ UNCHANGED calls
    /\ pc' = "status_done"
    /\ StatusFrame

StatusNext ==
    \/ StatusStart
    \/ StatusAcousticBrainz
    \/ StatusGetSongBpm

StatusSpec == StatusInit /\ [][StatusNext]_vars

(***************************************************************************)
(* Vocabulary of the properties.                                           *)
(***************************************************************************)
\* The position the log, abResult, gsResult and bpmStep speak about: the
\* track in progress, or the track that just ended (0: none yet).
Cur == IF pc \in {"loop", "done"} THEN idx - 1 ELSE idx

\* analyze_track is over for track Cur.
TrackEnded == pc \in {"loop", "done"} /\ Cur >= 1

\* How often a request was issued for the current track.
Issued(req) == Cardinality({k \in 1..Len(calls) : calls[k].req = req})

\* The positions of a list of (track, error) pairs, and of a sequence the
\* positions that satisfy a test.
Positions(pairs) == [k \in 1..Len(pairs) |-> pairs[k].track]
Elements(seq) == {seq[k] : k \in 1..Len(seq)}
Upto(n) == [k \in 1..n |-> k]

\* A provider call that gave no BPM: it raised, or returned None or 0.
GaveNothing(o) == o.kind = "raise" \/ (o.kind = "return" /\ ~Truthy(o.val))
GaveBpm(o) == o.kind = "return" /\ Truthy(o.val)

\* The answer to the artist search of track Cur ("none" before it).
ArtistAnswer ==
    IF calls # <<>> /\ calls[Len(calls)].req = "artist_search"
        THEN calls[Len(calls)].body
        ELSE "none"

(***************************************************************************)
(* C1  Batch isolation: whatever is raised while a track is processed, no  *)
(* exception leaves analyze_tracks and the loop is never cut short; when   *)
(* analyze_tracks returns, every position of the input was processed, the  *)
(* positions after a failed one included.                                  *)
(***************************************************************************)
C1_BatchIsolation ==
    /\ escaped = "none"
    /\ pc # "aborted"
    /\ pc = "done" =>
        /\ idx = Len(tracks) + 1
        /\ \A k \in 1..Len(tracks) :
            k \in Elements(successful_tracks) \cup Elements(Positions(failed_tracks))

\* The genre lookup of track 1 raised, and track 2 was analyzed all the same.
C1_Witness ==
    /\ pc = "done"
    /\ Len(tracks) = 2
    /\ Positions(failed_tracks) = <<1>>
    /\ failed_tracks[1].error = "Failed to get genres"
    /\ successful_tracks = <<2>>

(***************************************************************************)
(* C2  At every moment successful_tracks holds, in input order, exactly    *)
(* the processed positions whose BPM step and genre step ended without an  *)
(* exception, failed_tracks holds exactly the other processed positions,   *)
(* each with the message of its exception; so a processed track is in one  *)
(* of the two lists and never in both.                                     *)
(***************************************************************************)
C2_Partition ==
    LET Completed(k) == genreStep[k] = "ok"
        Fatal(k) == genreStep[k] # "ok"
        processed == Upto(idx - 1)
    IN  /\ successful_tracks = SelectSeq(processed, Completed)
        /\ Positions(failed_tracks) = SelectSeq(processed, Fatal)
        /\ \A k \in 1..Len(failed_tracks) :
            failed_tracks[k].error \in {"No genres found", "Failed to get genres"}
        /\ Elements(successful_tracks) \cap Elements(Positions(failed_tracks)) = {}
        /\ pc = "done" => Len(processed) = Len(tracks)

\* Of two tracks the first is returned and the second excluded.
C2_Witness ==
    /\ pc = "done"
    /\ successful_tracks = <<1>>
    /\ Positions(failed_tracks) = <<2>>
    /\ failed_tracks[1].error = "No genres found"

(***************************************************************************)
(* C3  Resolver order and short-circuit: GetSongBPM is never asked before  *)
(* AcousticBrainz when both are configured, and once AcousticBrainz has    *)
(* returned a BPM, GetSongBPM is not asked at all for that track and the   *)
(* track carries the AcousticBrainz value and source.                      *)
(***************************************************************************)
C3_ShortCircuit ==
    /\ (acousticbrainz /\ (Issued("gs_search") > 0 \/ pc = "gs_search")) =>
        /\ calls # <<>>
        /\ calls[1].req = "mb_search"
        /\ abResult.kind \in {"return", "raise"}
    /\ GaveBpm(abResult) =>
        /\ Issued("gs_search") = 0
        /\ pc # "gs_search"
        /\ gsResult = NotCalled
        /\ tracks[Cur].bpm = abResult.val
        /\ tracks[Cur].bpm_source = "acousticbrainz"
        /\ bpmStep = "found"

\* AcousticBrainz gave a BPM with GetSongBPM configured, and the track ended.
C3_Witness ==
    /\ TrackEnded
    /\ acousticbrainz /\ getsongbpm
    /\ GaveBpm(abResult)
    /\ Issued("gs_search") = 0

(***************************************************************************)
(* C4  The resolver absorbs every provider error: when AcousticBrainz      *)
(* raises, get_bpm_with_fallback raises nothing and, with GetSongBPM       *)
(* configured, GetSongBPM is asked next; when GetSongBPM raises,           *)
(* get_bpm_with_fallback returns False.                                    *)
(***************************************************************************)
C4_ErrorsAbsorbed ==
    /\ bpmStep \notin {"error", "fatal"}
    /\ (abResult.kind = "raise" /\ getsongbpm) =>
        (pc = "gs_search" \/ Issued("gs_search") = 1)
    /\ (abResult.kind = "raise" /\ ~getsongbpm) => bpmStep = "none"
    /\ gsResult.kind = "raise" => bpmStep = "none"

\* Both providers raised for one track, each a different class.
C4_Witness ==
    /\ abResult = Raised("ExternalAPIError")
    /\ gsResult = Raised("BPMAnalysisError")
    /\ bpmStep = "none"
    /\ pc = "genre"

(***************************************************************************)
(* C5  When every configured provider raised or returned nothing,          *)
(* get_bpm_with_fallback returns False, raises nothing, and the track's    *)
(* bpm and bpm_source are what they were when analyze_tracks was called.   *)
(***************************************************************************)
C5_Exhausted ==
    (/\ Cur >= 1
     /\ pc # "aborted"
     /\ acousticbrainz => GaveNothing(abResult)
     /\ getsongbpm => GaveNothing(gsResult))
    =>  /\ bpmStep = "none"
        /\ tracks[Cur].bpm = input[Cur].bpm
        /\ tracks[Cur].bpm_source = input[Cur].bpm_source

\* Both providers configured, one returned None, the other raised, on a
\* track that came with a bpm.
C5_Witness ==
    /\ acousticbrainz /\ getsongbpm
    /\ abResult = Returned(None)
    /\ gsResult.kind = "raise"
    /\ bpmStep = "none"
    /\ Cur >= 1
    /\ input[Cur] = EnrichedTrack
    /\ tracks[Cur].bpm = Some(100)

(***************************************************************************)
(* C6  The genre lookup follows the BPM step whatever its outcome: once    *)
(* the BPM step of a track is over the artist search is the next request,  *)
(* every track that ended had its artist search, and a track whose search  *)
(* found an artist is returned even without a BPM.                         *)
(***************************************************************************)
C6_GenreAlwaysAttempted ==
    /\ (bpmStep # "pending" /\ ~TrackEnded) => pc = "genre"
    /\ TrackEnded =>
        /\ Issued("artist_search") = 1
        /\ bpmStep \in {"found", "none", "error"}
        /\ ArtistAnswer = "artist" => Cur \in Elements(successful_tracks)

\* Both providers raised, the BPM step gave nothing, the track is returned.
C6_Witness ==
    /\ TrackEnded
    /\ abResult.kind = "raise"
    /\ gsResult.kind = "raise"
    /\ bpmStep = "none"
    /\ Cur \in Elements(successful_tracks)

(***************************************************************************)
(* C7  When the artist search finds no artist, or raises, analyze_track    *)
(* raises GenreAnalysisError for that track and analyze_tracks leaves the  *)
(* track out of the list it returns.                                       *)
(***************************************************************************)
C7_NoArtistExcludes ==
    (TrackEnded /\ ArtistAnswer \in {"empty", "raise", "nokey"}) =>
        /\ genreStep[Cur] = "GenreAnalysisError"
        /\ Cur \notin Elements(successful_tracks)
        /\ Cur \in Elements(Positions(failed_tracks))

\* The search found no artist although the BPM step had found a BPM.
C7_Witness ==
    /\ TrackEnded
    /\ ArtistAnswer = "empty"
    /\ bpmStep = "found"
    /\ genreStep[Cur] = "GenreAnalysisError"
    /\ Cur \notin Elements(successful_tracks)

(***************************************************************************)
(* C8  AcousticBrainz validator: every tempo an extraction function takes  *)
(* from a high-level or low-level document, every value get_track_bpm      *)
(* returns and every bpm a track has from AcousticBrainz lies in 60..200.  *)
(***************************************************************************)
C8_Validated ==
    /\ \A k \in 1..Len(calls) :
        calls[k].bpm # 0 => (MinBpm <= calls[k].bpm /\ calls[k].bpm <= MaxBpm)
    /\ (abResult.kind = "return" /\ abResult.val.some) =>
        (MinBpm <= abResult.val.v /\ abResult.val.v <= MaxBpm)
    /\ \A k \in 1..Len(tracks) :
        tracks[k].bpm_source = "acousticbrainz" =>
            (tracks[k].bpm.some /\ MinBpm <= tracks[k].bpm.v /\ tracks[k].bpm.v <= MaxBpm)

\* The upper end of the range came out of a low-level document, the lower
\* end out of a high-level document of the track before.
C8_Witness ==
    /\ Len(tracks) = 2
    /\ tracks[1].bpm = Some(MinBpm)
    /\ tracks[1].bpm_source = "acousticbrainz"
    /\ abResult = Returned(Some(MaxBpm))
    /\ Issued("ab_low") = 1
    /\ Cur = 2

(***************************************************************************)
(* C9  Two-phase document lookup.  As claimed: a high-level answer with a  *)
(* validated tempo is never followed by a low-level fetch, and every       *)
(* high-level answer that arrived without one is followed by exactly one.  *)
(***************************************************************************)
HighLevelCall == CHOOSE k \in 1..Len(calls) : calls[k].req = "ab_high"

C9_Original ==
    (Issued("ab_high") > 0 /\ calls[HighLevelCall].status # 0) =>
        IF calls[HighLevelCall].bpm # 0
            THEN Issued("ab_low") = 0 /\ pc # "ab_low"
            ELSE (pc = "ab_low" /\ Issued("ab_low") = 0) \/ Issued("ab_low") = 1

(***************************************************************************)
(* C9, amended: the low-level document is fetched exactly once after every *)
(* high-level answer that arrived without a validated tempo, unless that   *)
(* answer had status 200 and a body that is no JSON: then                  *)
(* get_track_bpm_by_mbid raises and the low-level document is not fetched. *)
(***************************************************************************)
C9_TwoPhase ==
    (Issued("ab_high") > 0 /\ calls[HighLevelCall].status # 0) =>
        IF calls[HighLevelCall].bpm # 0
            THEN Issued("ab_low") = 0 /\ pc # "ab_low"
        ELSE IF calls[HighLevelCall].body = "garbage"
            THEN Issued("ab_low") = 0 /\ pc # "ab_low" /\ abResult.kind = "raise"
        ELSE (pc = "ab_low" /\ Issued("ab_low") = 0) \/ Issued("ab_low") = 1

\* A parsed high-level document without an accepted tempo, then the
\* low-level fetch, once.
C9_Witness ==
    /\ Issued("ab_high") = 1
    /\ calls[HighLevelCall].status = 200
    /\ calls[HighLevelCall].body = "json"
    /\ calls[HighLevelCall].bpm = 0
    /\ Issued("ab_low") = 1
    /\ GaveBpm(abResult)

(***************************************************************************)
(* C10  As claimed: whenever a high-level or low-level fetch was answered  *)
(* with a status other than 200 and 404, or not at all, get_track_bpm      *)
(* ends by raising ExternalAPIError, and the resolver goes on to           *)
(* GetSongBPM.                                                             *)
(***************************************************************************)
C10_ServiceError ==
    (/\ abResult.kind # "notcalled"
     /\ \E k \in 1..Len(calls) :
            /\ calls[k].req \in {"ab_high", "ab_low"}
            /\ calls[k].status \notin {200, 404})
    =>  /\ abResult = Raised("ExternalAPIError")
        /\ getsongbpm => (pc = "gs_search" \/ Issued("gs_search") = 1)

(***************************************************************************)
(* C11  The identifier search never propagates a failure.  Right after the *)
(* MusicBrainz search was answered: if the answer was no answer at all, a  *)
(* status other than 200, a body that is no JSON, or a recordings list     *)
(* without a non-empty id, get_track_bpm has returned None and the         *)
(* resolver has moved on without a document fetch; otherwise the mbid in   *)
(* use is the first non-empty id of the list, in list order.  A document   *)
(* is only ever fetched with an mbid, after a search that answered 200     *)
(* with a document, and get_track_bpm raises only after a document fetch.  *)
(***************************************************************************)
NonEmptyIds == {k \in 1..Len(recordings) : recordings[k] # 0}

C11_SearchNeverRaises ==
    /\ (calls # <<>> /\ calls[Len(calls)].req = "mb_search") =>
          IF \/ calls[Len(calls)].status # 200
             \/ calls[Len(calls)].body # "json"
             \/ NonEmptyIds = {}
            THEN /\ abResult = Returned(None)
                 /\ mbid = 0
                 /\ pc \in {"gs_search", "genre"}
                 /\ Issued("ab_high") + Issued("ab_low") = 0
            ELSE /\ pc = "ab_high"
                 /\ abResult = NotCalled
                 /\ \E k \in NonEmptyIds :
                        /\ mbid = recordings[k]
                        /\ \A j \in NonEmptyIds : k <= j
    /\ pc \in {"ab_high", "ab_low"} => mbid # 0
    /\ Issued("ab_high") > 0 =>
          /\ calls[1].req = "mb_search"
          /\ calls[1].status = 200
          /\ calls[1].body = "json"
    /\ abResult.kind = "raise" => Issued("ab_high") > 0

\* The search met a network failure: get_track_bpm returned None, no
\* document was fetched and the resolver turned to GetSongBPM.
C11_Witness ==
    /\ calls # <<>>
    /\ calls[Len(calls)].req = "mb_search"
    /\ calls[Len(calls)].status = 0
    /\ abResult = Returned(None)
    /\ Issued("ab_high") = 0
    /\ pc = "gs_search"

(***************************************************************************)
(* C12  The matching policy of GetSongBPMAnalyzer.get_track_bpm.  Over a   *)
(* result list whose tempo fields are numbers or missing, the call returns *)
(* the tempo of the first result, in list order, whose artist matches and  *)
(* whose title matches and whose tempo is above 0; without such a result   *)
(* it returns the tempo of the first result of the list when that is above *)
(* 0, and None otherwise.  Whatever the document, a value of 0 or less is  *)
(* never returned.                                                         *)
(***************************************************************************)
GsAccepted ==
    {k \in 1..Len(op.data.results) :
        /\ op.data.results[k].artist_match
        /\ op.data.results[k].track_match
        /\ op.data.results[k].tempo.t = "num"
        /\ op.data.results[k].tempo.v > 0}

GsFirstTempo == op.data.results[1].tempo

C13_StatusErrors ==
    \A k \in 1..Len(calls) :
        (calls[k].req = "gs_search" /\ calls[k].status \notin {0, 200}) =>
            gsResult = Raised("ExternalAPIError")

(***************************************************************************)
(* C14  Track construction raises TrackValidationError and gives no Track  *)
(* whenever popularity is below 0 or above 100, or one of id, name,        *)
(* artist, uri is empty or made of whitespace only.                        *)
(***************************************************************************)
OnlyWhitespace(str) == \A k \in 1..Len(str) : str[k] \in Whitespace

C14_InvalidRefused ==
    (op.fn = "Track" /\ ret.kind # "pending") =>
        ((\/ op.popularity < 0
          \/ op.popularity > 100
          \/ OnlyWhitespace(op.id)
          \/ OnlyWhitespace(op.name)
          \/ OnlyWhitespace(op.artist)
          \/ OnlyWhitespace(op.uri))
         => /\ ret.kind = "raise"
            /\ ret.exc = "TrackValidationError")

\* A name of one blank, everything else valid: refused.
C14_Witness ==
    /\ op.fn = "Track"
    /\ op.id = <<"a">>
    /\ op.name = <<" ">>
    /\ op.artist = <<"a">>
    /\ op.uri = <<"a">>
    /\ op.popularity = 50
    /\ ret.kind = "raise"

(***************************************************************************)
(* C15  With id, name, artist and uri each holding a character that is no  *)
(* whitespace and 0 <= popularity <= 100, both ends included, Track        *)
(* construction returns a Track that keeps the five given values as given, *)
(* with bpm None, bpm_source None and genres the empty list, not None.     *)
(***************************************************************************)
C15_ValidConstructed ==
    (/\ op.fn = "Track"
     /\ ret.kind # "pending"
     /\ 0 <= op.popularity
     /\ op.popularity <= 100
     /\ \A f \in {op.id, op.name, op.artist, op.uri} : ~OnlyWhitespace(f))
    =>  /\ ret.kind = "return"
        /\ ret.val.id = op.id
        /\ ret.val.name = op.name
        /\ ret.val.artist = op.artist
        /\ ret.val.uri = op.uri
        /\ ret.val.popularity = op.popularity
        /\ ret.val.bpm = None
        /\ ret.val.bpm_source = "None"
        /\ ret.val.genres = SomeList(<<>>)

\* Popularity at its upper end and an id with a leading blank, kept as given.
C15_Witness ==
    /\ op.fn = "Track"
    /\ op.id = <<" ", "a">>
    /\ op.popularity = 100
    /\ ret.kind = "return"
    /\ ret.val.id = <<" ", "a">>
    /\ ret.val.genres = SomeList(<<>>)

(***************************************************************************)
(* The filters: the list handed in as it was at the call, the list         *)
(* returned, and what it means to return exactly the tracks that pass a    *)
(* test, each once and in the order of the list handed in (a reference to  *)
(* a track of that list is its position in it).                            *)
(***************************************************************************)
Given == op.given.lists[op.tracks]
Result == heap.lists[ret.ref]
Filtered(fn) == op.fn = fn /\ ret.kind = "return"

InGivenOrder(list) ==
    \A i, j \in 1..Len(list) : i < j => list[i] < list[j]

ExactlyThose(list, Test(_)) ==
    /\ InGivenOrder(list)
    /\ Elements(list) = {t \in Elements(Given) : Test(t)}

(***************************************************************************)
(* C16  filter_tracks_by_bpm returns exactly the tracks of its input whose *)
(* bpm is not None and satisfies min_bpm <= bpm <= max_bpm, both ends      *)
(* included, in input order; no returned track has bpm None.               *)
(***************************************************************************)
C16_BpmRange ==
    Filtered("filter_tracks_by_bpm") =>
        /\ ExactlyThose(Result,
              LAMBDA t : /\ op.given.tracks[t].bpm # None
                         /\ op.min_bpm.v <= op.given.tracks[t].bpm.v
                         /\ op.given.tracks[t].bpm.v <= op.max_bpm.v)
        /\ \A k \in 1..Len(Result) : op.given.tracks[Result[k]].bpm # None

\* Of a track without bpm and a track at the upper end of the range, the
\* second alone is returned.
C16_Witness ==
    /\ Filtered("filter_tracks_by_bpm")
    /\ op.min_bpm = Some(100)
    /\ op.max_bpm = Some(130)
    /\ Len(Given) = 2
    /\ op.given.tracks[1].bpm = None
    /\ op.given.tracks[2].bpm = Some(130)
    /\ Result = <<2>>

(***************************************************************************)
(* C17  filter_tracks_by_genre returns exactly the tracks of its input     *)
(* that have a genre containing the keyword as a substring, letters        *)
(* compared without regard to case, each such track once and in input      *)
(* order; a track whose genres are None or the empty list is never         *)
(* returned, whatever the keyword.                                         *)
(***************************************************************************)
SameLetter(a, b) ==
    a = b \/ {a, b} = {"R", "r"} \/ {a, b} = {"O", "o"} \/ {a, b} = {"A", "a"}

ContainsIgnoringCase(sub, str) ==
    \E i \in 0..(Len(str) - Len(sub)) :
        \A k \in 1..Len(sub) : SameLetter(sub[k], str[i + k])

HasGenreWith(t, keyword) ==
    \E k \in 1..Len(op.given.tracks[t].genres.v) :
        ContainsIgnoringCase(keyword, op.given.tracks[t].genres.v[k])

C17_GenreKeyword ==
    Filtered("filter_tracks_by_genre") =>
        /\ ExactlyThose(Result, LAMBDA t : HasGenreWith(t, op.genre_keyword.v))
        /\ \A k \in 1..Len(Result) :
              /\ op.given.tracks[Result[k]].genres # NoList
              /\ op.given.tracks[Result[k]].genres # SomeList(<<>>)

\* Keyword "RO": the track with the genres "Ro" and "o p" is returned, the
\* track with an empty genre list is not.
C17_Witness ==
    /\ Filtered("filter_tracks_by_genre")
    /\ op.genre_keyword = SomeStr(<<"R", "O">>)
    /\ Len(Given) = 2
    /\ op.given.tracks[1].genres = SomeList(<< <<"R", "o">>, <<"o", " ", "p">> >>)
    /\ op.given.tracks[2].genres = SomeList(<<>>)
    /\ Result = <<1>>

(***************************************************************************)
(* C18  As claimed: for both bounds and a keyword given, the empty keyword *)
(* included, every track filter_tracks_combined returns is also returned   *)
(* by filter_tracks_by_bpm and by filter_tracks_by_genre on the same list  *)
(* with the same parameters.                                               *)
(***************************************************************************)
BpmResult ==
    LET made == filter_tracks_by_bpm(op.given, op.tracks, op.min_bpm.v, op.max_bpm.v)
    IN  made.heap.lists[made.ref]

GenreResult ==
    LET made == filter_tracks_by_genre(op.given, op.tracks, op.genre_keyword.v)
    IN  made.heap.lists[made.ref]

C18_Original ==
    (/\ Filtered("filter_tracks_combined")
     /\ op.min_bpm # None
     /\ op.max_bpm # None
     /\ op.genre_keyword # NoStr)
    => Elements(Result) \subseteq (Elements(BpmResult) \cap Elements(GenreResult))

(***************************************************************************)
(* C18, amended: the inclusion holds for both bounds given and every       *)
(* keyword that is not empty.  With the empty keyword                      *)
(* filter_tracks_combined returns what filter_tracks_by_bpm returns, which *)
(* may hold tracks without genres that filter_tracks_by_genre drops.       *)
(***************************************************************************)
C18_Inclusion ==
    (/\ Filtered("filter_tracks_combined")
     /\ op.min_bpm # None
     /\ op.max_bpm # None
     /\ op.genre_keyword # NoStr)
    => IF op.genre_keyword.v # <<>>
         THEN Elements(Result) \subseteq (Elements(BpmResult) \cap Elements(GenreResult))
         ELSE Result = BpmResult

\* Two tracks with a genre that holds the keyword, the second with a bpm
\* above the range: the combined filter returns the first only.
C18_Witness ==
    /\ Filtered("filter_tracks_combined")
    /\ op.min_bpm = Some(100)
    /\ op.max_bpm = Some(130)
    /\ op.genre_keyword = SomeStr(<<"o">>)
    /\ Len(Given) = 2
    /\ op.given.tracks[2].bpm = Some(131)
    /\ GenreResult = <<1, 2>>
    /\ Result = <<1>>

(***************************************************************************)
(* filter_tracks_combined with the BPM step applied iff both bounds are    *)
(* given and the genre step iff genreOn: the list returned holds exactly   *)
(* the tracks that pass the applied steps, a step that is not applied      *)
(* drops nothing and makes no list, and the BPM step, when applied, works  *)
(* on the copy of the whole input, before the genre step.                  *)
(***************************************************************************)
BothBounds == op.min_bpm # None /\ op.max_bpm # None

InBounds(t) ==
    /\ op.given.tracks[t].bpm # None
    /\ op.min_bpm.v <= op.given.tracks[t].bpm.v
    /\ op.given.tracks[t].bpm.v <= op.max_bpm.v

StepsApplied(genreOn) ==
    /\ ExactlyThose(Result,
          LAMBDA t : /\ BothBounds => InBounds(t)
                     /\ genreOn => HasGenreWith(t, op.genre_keyword.v))
    /\ Len(heap.lists) = 2 + (IF BothBounds THEN 1 ELSE 0) + (IF genreOn THEN 1 ELSE 0)
    /\ ret.ref = Len(heap.lists)
    /\ heap.lists[2] = Given
    /\ BothBounds => ExactlyThose(heap.lists[3], InBounds)

(***************************************************************************)
(* C19  As claimed: the genre step is applied iff a keyword is given that  *)
(* is not empty after trimming, so a keyword of whitespace only drops no   *)
(* track.                                                                  *)
(***************************************************************************)
C19_Original ==
    Filtered("filter_tracks_combined") =>
        StepsApplied(op.genre_keyword # NoStr /\ ~OnlyWhitespace(op.genre_keyword.v))

(***************************************************************************)
(* C19, amended: in filter_tracks_combined the BPM step is applied iff     *)
(* both bounds are given, and the genre step iff a keyword is given that   *)
(* is not the empty string.  The keyword is not trimmed: a keyword of      *)
(* whitespace only is applied as it is and keeps only the tracks with a    *)
(* genre that contains it.  A step that is not applied leaves the sequence *)
(* as it is; when both are applied, BPM comes before genre.                *)
(***************************************************************************)
C19_Steps ==
    Filtered("filter_tracks_combined") =>
        StepsApplied(op.genre_keyword # NoStr /\ op.genre_keyword.v # <<>>)

\* Keyword " ", both tracks within the bounds: the track with the genre
\* "Ro" is dropped, the track with the genre "o p" is kept.
C19_Witness ==
    /\ Filtered("filter_tracks_combined")
    /\ BothBounds
    /\ op.genre_keyword = SomeStr(<<" ">>)
    /\ Len(Given) = 2
    /\ heap.lists[3] = <<1, 2>>
    /\ op.given.tracks[1].genres = SomeList(<< <<"R", "o">> >>)
    /\ Result = <<2>>

(***************************************************************************)
(* C20  The three filters are pure.  When filter_tracks_by_bpm,            *)
(* filter_tracks_by_genre or filter_tracks_combined has returned, the list *)
(* handed in holds the same tracks in the same order as at the call, no    *)
(* field of any Track object has changed, and the list returned is a list  *)
(* object made by the call, never the one handed in, also when             *)
(* filter_tracks_combined applies neither step.                            *)
(***************************************************************************)
C20_Pure ==
    (op.fn \in {"filter_tracks_by_bpm", "filter_tracks_by_genre", "filter_tracks_combined"}
     /\ ret.kind = "return")
    =>  /\ heap.lists[op.tracks] = Given
        /\ heap.tracks = op.given.tracks
        /\ \A l \in 1..Len(op.given.lists) : heap.lists[l] = op.given.lists[l]
        /\ ret.ref # op.tracks
        /\ ret.ref > Len(op.given.lists)

\* filter_tracks_combined without bounds and without keyword: a second list
\* with the same two tracks is returned.
C20_Witness ==
    /\ Filtered("filter_tracks_combined")
    /\ op.min_bpm = None
    /\ op.max_bpm = None
    /\ op.genre_keyword = NoStr
    /\ Len(Given) = 2
    /\ Result = Given
    /\ ret.ref # op.tracks

(***************************************************************************)
(* C21  filter_tracks_by_bpm is idempotent: applied with the same range to *)
(* the list it returned, it returns a list with the same tracks in the     *)
(* same order.                                                             *)
(***************************************************************************)
C21_Idempotent ==
    (op.fn = "filter_tracks_by_bpm" /\ ret.kind = "reapplied") =>
        heap.lists[ret.ref] = heap.lists[ret.first]

\* Of two tracks the first application kept one; so does the second.
C21_Witness ==
    /\ op.fn = "filter_tracks_by_bpm"
    /\ ret.kind = "reapplied"
    /\ Len(Given) = 2
    /\ heap.lists[ret.first] = <<2>>
    /\ heap.lists[ret.ref] = <<2>>
    /\ ret.ref # ret.first

(***************************************************************************)
(* The letters of a string, case and spaces set aside, and the parts of    *)
(* the claim about _similarity_score that do not depend on what identical  *)
(* strings score: the score is the Jaccard index of the two letter sets, 0 *)
(* when a string or its letter set is empty, symmetric, and within [0, 1]; *)
(* where neither string holds the other, the match rule holds iff the      *)
(* index is above 0.7, 0.7 itself not being enough.                        *)
(***************************************************************************)
LettersOf(str) ==
    {c \in {"a", "b", "c", "d", "e", "f", "g", "h", "i", "j"} :
        \E k \in 1..Len(str) : SameLetter(str[k], c)}

Common == Cardinality(LettersOf(op.str1) \cap LettersOf(op.str2))
Either == Cardinality(LettersOf(op.str1) \cup LettersOf(op.str2))
Scored == op.fn = "_similarity_score" /\ ret.kind = "return"

JaccardIndex ==
    /\ Scored =>
        /\ ret.score.den > 0
        /\ 0 <= ret.score.num
        /\ ret.score.num <= ret.score.den
        /\ IF LettersOf(op.str1) = {} \/ LettersOf(op.str2) = {}
             THEN ret.score.num = 0
             ELSE ret.score.num * Either = Common * ret.score.den
        /\ ret.score = _similarity_score(op.str2, op.str1)
    /\ (/\ op.fn = "_is_good_match"
        /\ ret.kind = "return"
        /\ ~ContainsIgnoringCase(op.str1, op.str2)
        /\ ~ContainsIgnoringCase(op.str2, op.str1))
       => (ret.val <=> 10 * Common > 7 * Either)

(***************************************************************************)
(* C22  As claimed: the score is that index, and it is 1 for two identical *)
(* strings that are not empty.                                             *)
(***************************************************************************)
C22_Original ==
    /\ JaccardIndex
    /\ (Scored /\ op.str1 = op.str2 /\ op.str1 # <<>>) => ret.score.num = ret.score.den

(***************************************************************************)
(* C22, amended: the score is that index, and it is 1 for two identical    *)
(* strings that hold a character other than a space; two identical strings *)
(* of spaces only score 0, their character sets being empty.               *)
(***************************************************************************)
C22_Similarity ==
    /\ JaccardIndex
    /\ (Scored /\ op.str1 = op.str2) =>
          IF LettersOf(op.str1) # {} THEN ret.score.num = ret.score.den
          ELSE ret.score.num = 0

\* "A b" against itself scores 2 / 2.
C22_Witness ==
    /\ Scored
    /\ op.str1 = <<"A", " ", "b">>
    /\ op.str2 = <<"A", " ", "b">>
    /\ ret.score = [num |-> 2, den |-> 2]

(***************************************************************************)
(* C23  As claimed: whatever listed suffixes a term ends with, in whatever *)
(* order, the string _clean_search_term returns for it ends with none of   *)
(* the listed suffixes.                                                    *)
(***************************************************************************)
C23_NoSuffixLeft ==
    (op.fn = "_clean_search_term" /\ ret.kind = "return") =>
        \A k \in 1..Len(suffixes_to_remove) : ~EndsWith(ret.val, suffixes_to_remove[k])

(***************************************************************************)
(* C24  The order of the low-level candidates.  For a document with a      *)
(* rhythm mapping, _extract_bpm_from_lowlevel returns the first value      *)
(* within 60..200 of the rhythm.tempo mapping, in the order of the         *)
(* mapping; rhythm.tempo itself when that is a number within 60..200;      *)
(* without either, rhythm.bpm when that is a number within 60..200; and    *)
(* None when there is no such value.                                       *)
(***************************************************************************)
Within(x) == x.t = "num" /\ 60 <= x.v /\ x.v <= 200

ValidEstimates == {k \in 1..Len(op.data.tempo.items) : Within(op.data.tempo.items[k])}

C24_FirstCandidate ==
    (/\ op.fn = "_extract_bpm_from_lowlevel"
     /\ ret.kind = "return"
     /\ op.data.shape = "dict"
     /\ op.data.rhythm = "dict")
    => IF op.data.tempo.t = "dict" /\ ValidEstimates # {}
         THEN \E k \in ValidEstimates :
                /\ \A j \in ValidEstimates : k <= j
                /\ ret.val = Some(op.data.tempo.items[k].v)
       ELSE IF Within(op.data.tempo) THEN ret.val = Some(op.data.tempo.v)
       ELSE IF Within(op.data.bpm) THEN ret.val = Some(op.data.bpm.v)
       ELSE ret.val = None

\* Estimates 200 and 60 in the mapping and rhythm.bpm 60: 200 is returned.
C24_Witness ==
    /\ op.fn = "_extract_bpm_from_lowlevel"
    /\ op.data.tempo.t = "dict"
    /\ op.data.tempo.items = <<JNum(200), JNum(60)>>
    /\ op.data.bpm = JNum(60)
    /\ ret.kind = "return"
    /\ ret.val = Some(200)

(***************************************************************************)
(* C25  get_fallback_status changes no field of any Track and runs no part *)
(* of the resolution: the only requests it issues are the is_available     *)
(* probes, at most one per provider and only for a provider that is        *)
(* configured, and the status it returns reports a provider that is not    *)
(* configured as not available.                                            *)
(***************************************************************************)
C25_StatusProbe ==
    op.fn = "get_fallback_status" =>
        /\ tracks = input
        /\ \A k \in 1..Len(calls) : calls[k].req \in {"ab_probe", "gs_probe"}
        /\ Issued("ab_probe") <= (IF acousticbrainz THEN 1 ELSE 0)
        /\ Issued("gs_probe") <= (IF getsongbpm THEN 1 ELSE 0)
        /\ abResult = NotCalled /\ gsResult = NotCalled /\ bpmStep = "pending"
        /\ ret.kind = "return" =>
              /\ ret.status.acousticbrainz_configured = acousticbrainz
              /\ ret.status.getsongbpm_configured = getsongbpm
              /\ ~acousticbrainz => ~ret.status.acousticbrainz_available
              /\ ~getsongbpm => ~ret.status.getsongbpm_available

\* Only GetSongBPM is configured and answers its probe: one request, two
\* tracks as they were, AcousticBrainz reported as not available.
C25_Witness ==
    /\ op.fn = "get_fallback_status"
    /\ ret.kind = "return"
    /\ ~acousticbrainz
    /\ getsongbpm
    /\ Len(calls) = 1
    /\ calls[1].req = "gs_probe"
    /\ calls[1].status = 200
    /\ ret.status.getsongbpm_available
    /\ ~ret.status.acousticbrainz_available
    /\ Len(tracks) = 2
    /\ tracks = input

(***************************************************************************)
(* C26  No retry: while a track is processed, each of the five requests    *)
(* (MusicBrainz search, high-level fetch, low-level fetch, GetSongBPM      *)
(* search, artist search) is issued at most once, whatever its answer; a   *)
(* request that failed is not issued again for that track.                 *)
(***************************************************************************)
C26_NoRetry ==
    /\ \A req \in {"mb_search", "ab_high", "ab_low", "gs_search", "artist_search"} :
          Issued(req) <= 1
    /\ \A k \in 1..Len(calls) :
          calls[k].req \in {"mb_search", "ab_high", "ab_low", "gs_search", "artist_search"}

\* Both document fetches and the GetSongBPM search failed, each issued once.
C26_Witness ==
    /\ Len(calls) = 4
    /\ calls[2].req = "ab_high" /\ calls[2].status = 500
    /\ calls[3].req = "ab_low" /\ calls[3].status = 500
    /\ calls[4].req = "gs_search" /\ calls[4].status = 0
    /\ pc = "genre"

(***************************************************************************)
(* C27  The fallback path leaves Spotify's audio features out: while       *)
(* analyze_tracks runs and after it, the only requests issued are those of *)
(* the two fallback providers and the artist search, and a track has       *)
(* bpm_source "spotify" only if it had it when analyze_tracks was called.  *)
(***************************************************************************)
C27_NoSpotifyBpm ==
    op.fn = "analyze_tracks" =>
        /\ \A k \in 1..Len(tracks) :
              tracks[k].bpm_source = "spotify" => input[k].bpm_source = "spotify"
        /\ \A k \in 1..Len(calls) :
              calls[k].req \in {"mb_search", "ab_high", "ab_low", "gs_search", "artist_search"}

\* Two tracks without BPM went through analyze_tracks with both providers
\* configured; both have a BPM now, neither from Spotify.
C27_Witness ==
    /\ pc = "done"
    /\ acousticbrainz
    /\ getsongbpm
    /\ Len(tracks) = 2
    /\ \A k \in 1..2 :
          /\ input[k].bpm = None
          /\ tracks[k].bpm # None
          /\ tracks[k].bpm_source \in {"acousticbrainz", "getsongbpm"}
    /\ tracks[1].bpm_source # tracks[2].bpm_source

(***************************************************************************)
(* C28  As claimed: whenever the low-level fetch was answered with status  *)
(* 404, get_track_bpm_by_mbid ends by raising DataNotFoundError.           *)
(***************************************************************************)
C28_NotFound ==
    \A k \in 1..Len(calls) :
        (calls[k].req = "ab_low" /\ calls[k].status = 404) =>
            abResult = Raised("DataNotFoundError")

(***************************************************************************)
(* C29  Enrichment consistency.  A track that came to analyze_tracks       *)
(* without bpm and bpm_source has, at every moment, a bpm iff it has a     *)
(* bpm_source; with bpm_source "acousticbrainz" its bpm is within 60..200, *)
(* with bpm_source "getsongbpm" above 0.  A provider call that raised or   *)
(* returned no BPM changes neither field: while no provider called for the *)
(* current track has given a BPM, its bpm and bpm_source are as they were  *)
(* at the call of analyze_tracks, whatever they were.                      *)
(***************************************************************************)
C29_Consistent ==
    op.fn = "analyze_tracks" =>
        /\ \A k \in 1..Len(tracks) :
              input[k] = FreshTrack =>
                /\ tracks[k].bpm # None <=> tracks[k].bpm_source # "None"
                /\ tracks[k].bpm_source \in {"None", "acousticbrainz", "getsongbpm"}
                /\ tracks[k].bpm_source = "acousticbrainz" =>
                      (60 <= tracks[k].bpm.v /\ tracks[k].bpm.v <= 200)
                /\ tracks[k].bpm_source = "getsongbpm" => tracks[k].bpm.v > 0
        /\ (/\ Cur \in 1..Len(tracks)
            /\ abResult = NotCalled \/ GaveNothing(abResult)
            /\ gsResult = NotCalled \/ GaveNothing(gsResult))
           => /\ tracks[Cur].bpm = input[Cur].bpm
              /\ tracks[Cur].bpm_source = input[Cur].bpm_source

\* AcousticBrainz raised and GetSongBPM gave 90: the track carries it with
\* bpm_source "getsongbpm".
C29_Witness ==
    /\ Cur \in 1..Len(tracks)
    /\ input[Cur] = FreshTrack
    /\ abResult.kind = "raise"
    /\ GaveBpm(gsResult)
    /\ tracks[Cur].bpm = Some(90)
    /\ tracks[Cur].bpm_source = "getsongbpm"

(***************************************************************************)
(* C30  An artist without genres is a success.  When the artist search     *)
(* found an artist, with or without genres, the genre step raises nothing  *)
(* and analyze_tracks returns the track; a track is excluded only when the *)
(* search found no artist or an exception was raised in it.                *)
(***************************************************************************)
C30_EmptyGenresKept ==
    TrackEnded =>
        /\ ArtistAnswer = "artist" =>
              /\ genreStep[Cur] = "ok"
              /\ Cur \in Elements(successful_tracks)
              /\ Cur \notin Elements(Positions(failed_tracks))
        /\ Cur \in Elements(Positions(failed_tracks)) =>
              ArtistAnswer \in {"empty", "raise", "nokey"}

\* A track that came with the genre "pop": the artist found has no genres,
\* the track's genres are now the empty list, and the track is returned.
C30_Witness ==
    /\ TrackEnded
    /\ ArtistAnswer = "artist"
    /\ input[Cur].genres = <<"pop">>
    /\ tracks[Cur].genres = <<>>
    /\ genreStep[Cur] = "ok"
    /\ Cur \in Elements(successful_tracks)

====
